---------------------------- MODULE Spec2Model ----------------------------
(***************************************************************************)
(* A model of get_comet_data.py: the JPL SBDB comet downloader.            *)
(*                                                                         *)
(* Two specifications are given.                                           *)
(*   SpecConvert  draws a decoded payload and applies                      *)
(*                convert_to_kstars_format to it (the pure transformer).   *)
(*   Spec         is one run of main(): parse the arguments, fetch,        *)
(*                apply --limit, call the writer chosen by --format, exit. *)
(*                                                                         *)
(* Python values are records tagged by k: None, a float (an exact rational *)
(* n/d in lowest terms; binary rounding is not modelled), a str, and a     *)
(* list standing for any non-scalar JSON value.  A decoded JSON object is  *)
(* a record whose DOMAIN is its key set.                                   *)
(***************************************************************************)
EXTENDS Integers, Sequences, FiniteSets, TLC

VARIABLES
    pc,           \* position in main() / in the transformer check
    args,         \* argparse namespace: format, limit
    fetched,      \* the payload as get_comet_data returned it (history)
    data,         \* main's local `data`
    io,           \* how the filesystem answers open()/write() in this run
    file0,        \* the target file before the run (history)
    file,         \* the target file now
    kstars_data,  \* save_as_kstars' local: the transformer's result
    success,      \* main's local `success`
    exit_code     \* the process exit status

vars == <<pc, args, fetched, data, io, file0, file, kstars_data, success, exit_code>>

----------------------------------------------------------------------------
(* Bounds of the model *)

\* most rows in a payload drawn for the transformer
MaxConvRows == 2

\* most rows (M) in a payload fetched by main
MaxRows == 2

----------------------------------------------------------------------------
(* Python values *)

None == [k |-> "None"]

Str(s) == [k |-> "str", s |-> s]

List == [k |-> "list"]

Raise(e) == [k |-> "raise", exc |-> e]

RECURSIVE GCD(_, _)
GCD(a, b) == IF b = 0 THEN a ELSE GCD(b, a % b)

Abs(a) == IF a < 0 THEN -a ELSE a

\* the float n/d, in lowest terms with d > 0
Float(n, d) ==
    LET g == GCD(Abs(n), d)
    IN  [k |-> "float", n |-> n \div g, d |-> d \div g]

FloatSub(x, y) == Float(x.n * y.d - y.n * x.d, x.d * y.d)

FloatDiv(x, y) == Float(x.n * y.d, x.d * y.n)

FloatGt(x, y) == x.n * y.d > y.n * x.d

\* the text of the numeric strings of the model, as float() parses them
ParseTable ==
    [s \in {"2450000.5", "27740.5"} |->
        IF s = "2450000.5" THEN Float(4900001, 2) ELSE Float(55481, 2)]

\* float(value): a float is itself, a str is parsed or raises ValueError,
\* anything else (None, a list) raises TypeError
float(value) ==
    CASE value.k = "float" -> value
      [] value.k = "str" ->
            IF value.s \in DOMAIN ParseTable
                THEN ParseTable[value.s]
                ELSE Raise("ValueError")
      [] OTHER -> Raise("TypeError")

\* `not x` for a payload: None and the empty dict are falsy
Falsy(x) == x = None \/ DOMAIN x = {}

\* `not rows` for a list
EmptyList(rows) == Len(rows) = 0

----------------------------------------------------------------------------
(* convert_to_kstars_format *)

\* a variant of kstars_fields with w and om in the other order
KstarsFieldsMutSwapped ==
    << "full_name", "epoch.mjd", "q", "e", "i", "om", "w", "tp", "orbit_id",
       "neo", "M1", "M2", "diameter", "extent", "albedo", "rot_per", "per.y",
       "moid", "H", "G", "class" >>

kstars_fields ==
    << "full_name", "epoch.mjd", "q", "e", "i", "w", "om", "tp", "orbit_id",
       "neo", "M1", "M2", "diameter", "extent", "albedo", "rot_per", "per.y",
       "moid", "H", "G", "class" >>

\* a variant of the mapping that also carries a source column G over
JplToKstarsMutMapsG ==
    [ full_name |-> "full_name", epoch |-> "epoch.mjd", q |-> "q", e |-> "e",
      i |-> "i", w |-> "w", om |-> "om", tp |-> "tp", moid |-> "moid",
      H |-> "H", class |-> "class", per |-> "per.y", G |-> "G" ]

\* the if/elif chain of the mapping loop: JPL field name -> KStars field name
JplToKstars ==
    [ full_name |-> "full_name", epoch |-> "epoch.mjd", q |-> "q", e |-> "e",
      i |-> "i", w |-> "w", om |-> "om", tp |-> "tp", moid |-> "moid",
      H |-> "H", class |-> "class", per |-> "per.y" ]

Max(S) == CHOOSE m \in S : \A n \in S : n <= m

\* field_map after the loop over enumerate(jpl_fields): KStars field name ->
\* index into the JPL row; a later occurrence of a name overwrites an earlier
field_map(jpl_fields) ==
    LET mapped == {j \in 1..Len(jpl_fields) : jpl_fields[j] \in DOMAIN JplToKstars}
        targets == {JplToKstars[jpl_fields[j]] : j \in mapped}
    IN  [t \in targets |->
            Max({j \in mapped : JplToKstars[jpl_fields[j]] = t})]

\* the exceptions the two conversion blocks catch
Caught == {"ValueError", "TypeError"}

\* a variant of the year length: 365 days
DaysPerYearMut365 == Float(365, 1)

DaysPerYear == Float(36525, 100)

JDThreshold == 2400000

MJDOffset == Float(24000005, 10)

\* the 'per.y' branch: days to years
per_y(value) ==
    IF value # None
        THEN LET f == float(value)
             IN  IF f.k = "raise"
                     THEN IF f.exc \in Caught THEN None ELSE f
                     ELSE FloatDiv(f, DaysPerYear)
        ELSE value

\* a variant of the epoch branch that compares with >= instead of >
EpochMutGe(value) ==
    IF value # None
        THEN LET epoch_val == float(value)
             IN  IF epoch_val.k = "raise"
                     THEN IF epoch_val.exc \in Caught THEN None ELSE epoch_val
                     ELSE IF ~FloatGt(Float(JDThreshold, 1), epoch_val)
                              THEN FloatSub(epoch_val, MJDOffset)
                              ELSE epoch_val
        ELSE value

\* the 'epoch.mjd' branch: Julian Date to Modified Julian Date
epoch_mjd(value) ==
    IF value # None
        THEN LET epoch_val == float(value)
             IN  IF epoch_val.k = "raise"
                     THEN IF epoch_val.exc \in Caught THEN None ELSE epoch_val
                     ELSE IF FloatGt(epoch_val, Float(JDThreshold, 1))
                              THEN FloatSub(epoch_val, MJDOffset)
                              ELSE epoch_val
        ELSE value

\* one pass of the inner loop: the value appended for `field`
kstars_value(field, row, fm) ==
    IF field \in DOMAIN fm
        THEN LET value == row[fm[field]]
             IN  CASE field = "per.y" -> per_y(value)
                   [] field = "epoch.mjd" -> epoch_mjd(value)
                   [] OTHER -> value
        ELSE None

\* kstars_row once the inner loop has run over kstars_fields
kstars_row(row, fm) ==
    [j \in 1..Len(kstars_fields) |-> kstars_value(kstars_fields[j], row, fm)]

Signature == "KStars comet data converted from JPL SBDB API"

\* a variant of the outer loop that emits the rows last to first
KstarsRowsMutReversed(d) ==
    [r \in 1..Len(d.data) |->
        kstars_row(d.data[Len(d.data) + 1 - r], field_map(d.fields))]

\* kstars_data once the outer loop has run over data['data']
kstars_rows(d) ==
    [r \in 1..Len(d.data) |-> kstars_row(d.data[r], field_map(d.fields))]

\* the values an uncaught exception of a conversion shows up as
Raised(rows) ==
    { rows[r][j] : r \in 1..Len(rows), j \in 1..Len(kstars_fields) }
        \cap { Raise(e) : e \in {"ValueError", "TypeError"} }

\* the structure built from kstars_data, unless a conversion raised
kstars_format(rows) ==
    IF Raised(rows) # {}
        THEN CHOOSE x \in Raised(rows) : TRUE
        ELSE [ signature |-> Signature,
               fields |-> kstars_fields,
               data |-> rows,
               count |-> Len(rows) ]

\* the function's result: None when it refuses, the raised exception when a
\* conversion lets one through, else the KStars structure
convert_to_kstars_format(d) ==
    IF Falsy(d) \/ "data" \notin DOMAIN d \/ "fields" \notin DOMAIN d
        THEN None
        ELSE kstars_format(kstars_rows(d))

----------------------------------------------------------------------------
(* Payloads *)

\* cell values drawn for the transformer: null, a float at the JD threshold,
\* the float half a day above it, a numeric string above it, one below it,
\* a non-numeric string, a list
ConvValues ==
    { None, Float(JDThreshold, 1), MJDOffset, Str("2450000.5"),
      Str("27740.5"), Str("abc"), List }

\* source field lists drawn for the transformer: subsets and orders of the
\* mapped names, an unmapped JPL name (pdes) and a KStars-only name (G)
ConvLayouts ==
    { <<>>, <<"full_name">>, <<"epoch", "per">>, <<"per", "epoch">>,
      <<"class", "full_name">>, <<"G", "pdes">> }

\* the row lists of m rows over a field list and cell values
Rows(L, values, m) == [1..m -> [1..Len(L) -> values]]

EmptyDict == [x \in {} |-> None]

\* the payloads that are not tables: one of the two keys missing, an API
\* error object, the empty object
MissingKeys(layouts, values) ==
    { [fields |-> L] : L \in layouts }
      \cup UNION { { [data |-> rows] : rows \in Rows(L, values, 1) } : L \in layouts }
      \cup { [message |-> "error"], EmptyDict }

----------------------------------------------------------------------------
(* SpecConvert: the transformer applied to a drawn payload *)

NoFile == [format |-> "absent"]

InitConvert ==
    /\ pc = "input"
    /\ \/ \E L \in ConvLayouts : \E m \in 0..MaxConvRows :
            \E rows \in Rows(L, ConvValues, m) :
                data = [fields |-> L, data |-> rows]
       \/ data \in MissingKeys(ConvLayouts, ConvValues)
    /\ fetched = data
    /\ args = [format |-> "kstars", limit |-> None]
    /\ io = "ok"
    /\ file0 = NoFile
    /\ file = NoFile
    /\ kstars_data = None
    /\ success = None
    /\ exit_code = None

Convert ==
    /\ pc = "input"
    /\ kstars_data' = convert_to_kstars_format(data)
    /\ pc' = "converted"
    /\ UNCHANGED <<args, fetched, data, io, file0, file, success, exit_code>>

NextConvert == Convert

SpecConvert == InitConvert /\ [][NextConvert]_vars

----------------------------------------------------------------------------
(* The writers.  Each returns its result and the target file it leaves. *)

PyInt(n) == [k |-> "int", v |-> n]

True == [k |-> "bool", v |-> TRUE]

False == [k |-> "bool", v |-> FALSE]

\* a file that existed before the run
OldFile == [format |-> "old"]

\* open(filename, 'w') has created or truncated the file; nothing written yet
EmptyFile == [format |-> "empty"]

\* a write raised part-way
PartialFile == [format |-> "partial"]

\* how csv.writer renders one value: None as the empty field, a str as
\* itself, anything else by its str()
CsvField(value) ==
    IF value = None THEN Str("")
    ELSE IF value.k = "str" THEN value
    ELSE [k |-> "repr", of |-> value]

\* what writerow(fieldnames) and writerows(data['data']) leave in the file
CsvFile(d) ==
    [ format |-> "csv",
      lines |-> << [j \in 1..Len(d.fields) |-> Str(d.fields[j])] >>
                \o [r \in 1..Len(d.data) |->
                      [j \in 1..Len(d.data[r]) |-> CsvField(d.data[r][j])]] ]

\* a variant of save_as_csv without the test for zero rows
SaveCsvMutNoRowCheck(d, f, ioa) ==
    IF Falsy(d) \/ "data" \notin DOMAIN d \/ "fields" \notin DOMAIN d
        THEN [ret |-> False, file |-> f]
    ELSE IF ioa = "open_error"
        THEN [ret |-> False, file |-> f]
    ELSE IF ioa = "write_error"
        THEN [ret |-> False, file |-> PartialFile]
    ELSE [ret |-> True, file |-> CsvFile(d)]

save_as_csv(d, f, ioa) ==
    IF Falsy(d) \/ "data" \notin DOMAIN d \/ "fields" \notin DOMAIN d
        THEN [ret |-> False, file |-> f]
    ELSE IF ioa = "open_error"
        THEN [ret |-> False, file |-> f]
    ELSE IF EmptyList(d.data)
        THEN [ret |-> False, file |-> EmptyFile]
    ELSE IF ioa = "write_error"
        THEN [ret |-> False, file |-> PartialFile]
    ELSE [ret |-> True, file |-> CsvFile(d)]

\* a variant of save_as_json that insists on the 'data' key
SaveJsonMutNeedsData(d, f, ioa) ==
    IF Falsy(d) \/ "data" \notin DOMAIN d
        THEN [ret |-> False, file |-> f]
    ELSE IF ioa = "open_error"
        THEN [ret |-> False, file |-> f]
    ELSE IF ioa = "write_error"
        THEN [ret |-> False, file |-> PartialFile]
    ELSE [ret |-> True, file |-> [format |-> "json", indent |-> "2", doc |-> d]]

save_as_json(d, f, ioa) ==
    IF Falsy(d)
        THEN [ret |-> False, file |-> f]
    ELSE IF ioa = "open_error"
        THEN [ret |-> False, file |-> f]
    ELSE IF ioa = "write_error"
        THEN [ret |-> False, file |-> PartialFile]
    ELSE [ret |-> True, file |-> [format |-> "json", indent |-> "2", doc |-> d]]

\* save_as_kstars from the result kd of the conversion on: a raised
\* exception is caught by `except Exception`, None is refused, else the
\* structure is dumped as compact JSON
dump_kstars(kd, f, ioa) ==
    IF kd = None \/ "k" \in DOMAIN kd
        THEN [ret |-> False, file |-> f, kstars_data |-> kd]
    ELSE IF ioa = "open_error"
        THEN [ret |-> False, file |-> f, kstars_data |-> kd]
    ELSE IF ioa = "write_error"
        THEN [ret |-> False, file |-> PartialFile, kstars_data |-> kd]
    ELSE [ ret |-> True,
           file |-> [format |-> "json", indent |-> "compact", doc |-> kd],
           kstars_data |-> kd ]

save_as_kstars(d, f, ioa) ==
    IF Falsy(d)
        THEN [ret |-> False, file |-> f, kstars_data |-> None]
        ELSE dump_kstars(convert_to_kstars_format(d), f, ioa)

----------------------------------------------------------------------------
(* Spec: one run of main() *)

MainValues == { None, Str("2450000.5") }

MainLayouts == { <<>>, <<"full_name">>, <<"per", "epoch">> }

Payloads ==
    UNION { UNION { { [fields |-> L, data |-> rows] :
                        rows \in Rows(L, MainValues, m) } : m \in 0..MaxRows } :
            L \in MainLayouts }
      \cup MissingKeys(MainLayouts, MainValues)

Formats == {"csv", "json", "kstars"}

\* --limit absent, or a non-negative integer up to one past the most rows
Limits == {None} \cup {PyInt(n) : n \in 0..(MaxRows + 1)}

Min(a, b) == IF a < b THEN a ELSE b

Init ==
    /\ pc = "start"
    /\ args \in [format : Formats, limit : Limits]
    /\ io \in {"ok", "open_error", "write_error"}
    /\ file0 \in {NoFile, OldFile}
    /\ file = file0
    /\ fetched = None
    /\ data = None
    /\ kstars_data = None
    /\ success = None
    /\ exit_code = None

\* get_comet_data returns the decoded body, with or without a 'data' key
FetchPayload ==
    /\ pc = "start"
    /\ \E p \in Payloads :
        /\ data' = p
        /\ fetched' = p
    /\ pc' = "fetched"
    /\ UNCHANGED <<args, io, file0, file, kstars_data, success, exit_code>>

\* get_comet_data catches a RequestException or a JSONDecodeError
FetchError ==
    /\ pc = "start"
    /\ data' = None
    /\ fetched' = None
    /\ pc' = "fetched"
    /\ UNCHANGED <<args, io, file0, file, kstars_data, success, exit_code>>

\* if not data: sys.exit(1)
ExitNoData ==
    /\ pc = "fetched"
    /\ Falsy(data)
    /\ exit_code' = PyInt(1)
    /\ pc' = "done"
    /\ UNCHANGED <<args, fetched, data, io, file0, file, kstars_data, success>>

\* data['data'][:args.limit] for a limit of at least 0
LimitedRows(rows, limit) == SubSeq(rows, 1, Min(limit.v, Len(rows)))

\* if args.limit and 'data' in data: ...
ApplyLimit ==
    /\ pc = "fetched"
    /\ ~Falsy(data)
    /\ data' = IF args.limit # None /\ args.limit.v # 0 /\ "data" \in DOMAIN data
                   THEN [data EXCEPT !.data = LimitedRows(@, args.limit)]
                   ELSE data
    /\ pc' = "limited"
    /\ UNCHANGED <<args, fetched, io, file0, file, kstars_data, success, exit_code>>

SaveCsv ==
    /\ pc = "limited"
    /\ args.format = "csv"
    /\ \E res \in {save_as_csv(data, file, io)} :
           /\ success' = res.ret
           /\ file' = res.file
    /\ pc' = "saved"
    /\ UNCHANGED <<args, fetched, data, io, file0, kstars_data, exit_code>>

SaveKstars ==
    /\ pc = "limited"
    /\ args.format = "kstars"
    /\ \E res \in {save_as_kstars(data, file, io)} :
           /\ success' = res.ret
           /\ file' = res.file
           /\ kstars_data' = res.kstars_data
    /\ pc' = "saved"
    /\ UNCHANGED <<args, fetched, data, io, file0, exit_code>>

SaveJson ==
    /\ pc = "limited"
    /\ args.format \notin {"csv", "kstars"}
    /\ \E res \in {save_as_json(data, file, io)} :
           /\ success' = res.ret
           /\ file' = res.file
    /\ pc' = "saved"
    /\ UNCHANGED <<args, fetched, data, io, file0, kstars_data, exit_code>>

\* a variant of the last step that exits 0 whatever the writer returned
ExitMutAlwaysZero ==
    /\ pc = "saved"
    /\ exit_code' = PyInt(0)
    /\ pc' = "done"
    /\ UNCHANGED <<args, fetched, data, io, file0, file, kstars_data, success>>

\* if success: (report, fall off the end) else: sys.exit(1)
Exit ==
    /\ pc = "saved"
    /\ exit_code' = IF success = True THEN PyInt(0) ELSE PyInt(1)
    /\ pc' = "done"
    /\ UNCHANGED <<args, fetched, data, io, file0, file, kstars_data, success>>

Next ==
    \/ FetchPayload
    \/ FetchError
    \/ ExitNoData
    \/ ApplyLimit
    \/ SaveCsv
    \/ SaveKstars
    \/ SaveJson
    \/ Exit

Spec == Init /\ [][Next]_vars

----------------------------------------------------------------------------
(* What the claims speak of, stated apart from the definitions above *)

TargetSchema ==
    << "full_name", "epoch.mjd", "q", "e", "i", "w", "om", "tp", "orbit_id",
       "neo", "M1", "M2", "diameter", "extent", "albedo", "rot_per", "per.y",
       "moid", "H", "G", "class" >>

TargetPos(name) == CHOOSE j \in 1..Len(TargetSchema) : TargetSchema[j] = name

HasBoth(d) == d # None /\ {"fields", "data"} \subseteq DOMAIN d

IsStructure(x) == DOMAIN x = {"signature", "fields", "data", "count"}

HasField(d, name) == \E j \in 1..Len(d.fields) : d.fields[j] = name

\* the column of a source field (field names are unique in a table)
Col(d, name) == CHOOSE j \in 1..Len(d.fields) : d.fields[j] = name

\* a value is numeric when it is a number or the text of one
Numeric(v) == v.k = "float" \/ (v.k = "str" /\ v.s \in {"2450000.5", "27740.5"})

\* numerator and denominator of a numeric value
Num(v) ==
    CASE v.k = "float" -> v.n
      [] v.k = "str" /\ v.s = "2450000.5" -> 4900001
      [] v.k = "str" /\ v.s = "27740.5" -> 55481

Den(v) == IF v.k = "float" THEN v.d ELSE 2

\* the transformer has run on a payload with both keys
Converted == pc = "converted" /\ HasBoth(data)

\* the chosen writer has returned
Written == pc \in {"saved", "done"}

----------------------------------------------------------------------------
(* Claims checked under SpecConvert *)

\* C1: for every payload with both a 'fields' and a 'data' key, whatever the
\* order or subset of source field names, the result's field list is the 21
\* target names in the fixed order and every output row has 21 values.
C1_FixedSchema ==
    Converted =>
        /\ IsStructure(kstars_data)
        /\ kstars_data.fields = TargetSchema
        /\ \A r \in 1..Len(kstars_data.data) :
              Len(kstars_data.data[r]) = Len(TargetSchema)

\* C1 witness: a source that lists per before epoch, two rows converted
C1_Witness ==
    /\ Converted
    /\ data.fields = <<"per", "epoch">>
    /\ Len(data.data) = 2
    /\ kstars_data.fields = TargetSchema
    /\ Len(kstars_data.data[2]) = 21

\* C2: with an 'epoch' column, a numeric epoch above 2,400,000 comes out as
\* epoch - 2,400,000.5, a numeric epoch of at most 2,400,000 comes out with
\* its value unchanged, null comes out null, and a non-numeric epoch comes
\* out null without an error.
C2_EpochConversion ==
    (Converted /\ HasField(data, "epoch")) =>
        /\ IsStructure(kstars_data)
        /\ \A r \in 1..Len(data.data) :
              LET v == data.data[r][Col(data, "epoch")]
                  out == kstars_data.data[r][TargetPos("epoch.mjd")]
              IN  IF v # None /\ Numeric(v)
                      THEN /\ out.k = "float"
                           /\ IF Num(v) > 2400000 * Den(v)
                                  THEN 2 * out.n * Den(v)
                                         = (2 * Num(v) - 4800001 * Den(v)) * out.d
                                  ELSE out.n * Den(v) = Num(v) * out.d
                      ELSE out = None

\* C2 witness: "2450000.5" came out as 50000.0 and the epoch 2400000 unchanged
C2_Witness ==
    /\ Converted
    /\ data.fields = <<"epoch", "per">>
    /\ Len(data.data) = 2
    /\ data.data[1][1] = Str("2450000.5")
    /\ kstars_data.data[1][2] = [k |-> "float", n |-> 50000, d |-> 1]
    /\ data.data[2][1] = [k |-> "float", n |-> 2400000, d |-> 1]
    /\ kstars_data.data[2][2] = [k |-> "float", n |-> 2400000, d |-> 1]

\* C3: a numeric value in a 'per' column comes out as that value divided by
\* 365.25; without a 'per' column, or for a null or non-numeric value, 'per.y'
\* is null; the conversion never raises.
C3_PeriodConversion ==
    Converted =>
        /\ IsStructure(kstars_data)
        /\ \A r \in 1..Len(data.data) :
              LET out == kstars_data.data[r][TargetPos("per.y")]
              IN  IF HasField(data, "per")
                      THEN LET v == data.data[r][Col(data, "per")]
                           IN  IF v # None /\ Numeric(v)
                                   THEN out = Float(Num(v) * 4, Den(v) * 1461)
                                   ELSE out = None
                      ELSE out = None

\* C3 witness: "27740.5" days came out as 110962/1461 (75.95) years, and a
\* non-numeric period as null
C3_Witness ==
    /\ Converted
    /\ data.fields = <<"per", "epoch">>
    /\ Len(data.data) = 2
    /\ data.data[1][1] = Str("27740.5")
    /\ kstars_data.data[1][17] = [k |-> "float", n |-> 110962, d |-> 1461]
    /\ data.data[2][1] = Str("abc")
    /\ kstars_data.data[2][17] = None

PassThroughNames == {"full_name", "q", "e", "i", "w", "om", "tp", "moid", "H", "class"}

\* C10: every target field other than 'per.y' and 'epoch.mjd' carries the
\* value of the same-named source column of the same row, null included, when
\* the source has that column among full_name, q, e, i, w, om, tp, moid, H,
\* class, and is null in every row otherwise.
C10_PassThrough ==
    Converted =>
        /\ IsStructure(kstars_data)
        /\ \A r \in 1..Len(data.data) :
              \A j \in 1..Len(TargetSchema) :
                  LET t == TargetSchema[j]
                  IN  t \notin {"per.y", "epoch.mjd"} =>
                          kstars_data.data[r][j] =
                              IF t \in PassThroughNames /\ HasField(data, t)
                                  THEN data.data[r][Col(data, t)]
                                  ELSE None

\* C10 witness: class and full_name passed through (a null and a list among
\* them) from a source that lists class first
C10_Witness ==
    /\ Converted
    /\ data.fields = <<"class", "full_name">>
    /\ data.data = << <<Str("abc"), None>>, <<List, Str("27740.5")>> >>
    /\ kstars_data.data[1][21] = Str("abc")
    /\ kstars_data.data[1][1] = None
    /\ kstars_data.data[2][21] = List
    /\ kstars_data.data[2][1] = Str("27740.5")
    /\ kstars_data.data[1][20] = None

----------------------------------------------------------------------------
(* Claims checked under Spec *)

\* C4: for a fetched table of M rows and every non-negative --limit N, the
\* rows handed on are the first N fetched rows in order when N < M, and all M
\* rows unchanged when N >= M.
C4_LimitTruncates ==
    (pc = "limited" /\ args.limit # None /\ HasBoth(fetched)) =>
        /\ Len(data.data) = IF args.limit.v < Len(fetched.data)
                                THEN args.limit.v
                                ELSE Len(fetched.data)
        /\ \A r \in 1..Len(data.data) : data.data[r] = fetched.data[r]

\* C5, as claimed: the exit status is 1 if the fetch fails or the chosen
\* writer reports failure, and 0 in every other run.
C5_ExitStatusAsClaimed ==
    pc = "done" =>
        exit_code = IF fetched = None \/ success = False
                        THEN [k |-> "int", v |-> 1]
                        ELSE [k |-> "int", v |-> 0]

\* C5, amended: the exit status is 1 if the fetch fails, if the fetched
\* payload is empty, or if the chosen writer reports failure, and 0 in every
\* other run; a run in which a non-empty payload was fetched and the writer
\* succeeded exits 0.
C5_ExitStatus ==
    pc = "done" =>
        /\ exit_code = IF fetched = None \/ DOMAIN fetched = {} \/ success = False
                           THEN [k |-> "int", v |-> 1]
                           ELSE [k |-> "int", v |-> 0]
        /\ (fetched # None /\ DOMAIN fetched # {}) => success \in {True, False}
        /\ (fetched = None \/ DOMAIN fetched = {}) => success = None

\* C5 witness: the empty object was fetched, no writer ran, the run exited 1
C5_Witness ==
    /\ pc = "done"
    /\ fetched = EmptyDict
    /\ success = None
    /\ file = file0
    /\ exit_code = [k |-> "int", v |-> 1]

\* C6, as claimed: when the fetched payload lacks 'data', the CSV and legacy
\* writers report failure and create or modify no file, while the JSON
\* writer still succeeds and writes the payload received (an OS-level I/O
\* error apart).
C6_MissingDataAsClaimed ==
    (pc = "done" /\ fetched # None /\ "data" \notin DOMAIN fetched) =>
        /\ args.format \in {"csv", "kstars"} =>
              success # True /\ file = file0
        /\ (args.format = "json" /\ io = "ok") =>
              /\ success = True
              /\ file = [format |-> "json", indent |-> "2", doc |-> fetched]

\* C6, amended: when the fetched payload is not empty and lacks 'data', the
\* CSV and legacy writers report failure and create or modify no file, while
\* the JSON writer succeeds and writes the payload received unless an
\* OS-level I/O error occurs; the empty payload reaches no writer.
C6_MissingData ==
    (pc = "done" /\ fetched # None /\ "data" \notin DOMAIN fetched) =>
        IF DOMAIN fetched = {}
            THEN success = None /\ file = file0
            ELSE /\ args.format \in {"csv", "kstars"} =>
                       success = False /\ file = file0
                 /\ (args.format = "json" /\ io = "ok") =>
                       /\ success = True
                       /\ file = [format |-> "json", indent |-> "2", doc |-> fetched]

\* C6 witness: an API error object, fetched with no 'data' key, was written
\* over an existing file by the JSON writer
C6_Witness ==
    /\ pc = "done"
    /\ fetched = [message |-> "error"]
    /\ args.format = "json"
    /\ file0 = OldFile
    /\ success = True
    /\ file = [format |-> "json", indent |-> "2", doc |-> [message |-> "error"]]

\* C7: whenever a writer reports failure for a reason other than an OS-level
\* I/O error, a file that already existed at the target path still has its
\* prior content.
C7_FailureKeepsPriorFile ==
    (Written /\ success = False /\ io = "ok" /\ file0 = OldFile) =>
        file = file0

\* C8: for every source table with both keys, zero rows included, the legacy
\* structure has exactly the keys signature, fields, data and count, its data
\* holds one output row per source row in source row order, count is the
\* number of rows in data (also after --limit has truncated the source), and
\* zero source rows are not a failure.
C8_LegacyStructure ==
    (Written /\ args.format = "kstars" /\ HasBoth(fetched)) =>
        /\ DOMAIN kstars_data = {"signature", "fields", "data", "count"}
        /\ Len(kstars_data.data) = Len(data.data)
        /\ kstars_data.count = Len(kstars_data.data)
        /\ \A r \in 1..Len(data.data) :
              \A j \in 1..Len(data.fields) :
                  data.fields[j] = "full_name" =>
                      kstars_data.data[r][1] = data.data[r][j]
        /\ io = "ok" =>
              /\ success = True
              /\ file = [format |-> "json", indent |-> "compact", doc |-> kstars_data]

\* C8 witness: --limit 1 truncated two fetched rows that differ to the first,
\* and the structure written holds that one row with count 1
C8_Witness ==
    /\ pc = "done"
    /\ args = [format |-> "kstars", limit |-> [k |-> "int", v |-> 1]]
    /\ fetched = [fields |-> <<"full_name">>,
                  data |-> << <<Str("2450000.5")>>, <<None>> >>]
    /\ success = True
    /\ file.doc.count = 1
    /\ Len(file.doc.data) = 1
    /\ file.doc.data[1][1] = Str("2450000.5")

\* C9, as claimed: save_as_csv fails whenever the table has zero field names,
\* and for a table with at least one field name it writes the header line
\* followed by one line per row in row order (an OS-level I/O error apart).
C9_CsvAsClaimed ==
    (Written /\ args.format = "csv" /\ HasBoth(data)) =>
        /\ Len(data.fields) = 0 => success = False
        /\ (Len(data.fields) >= 1 /\ io = "ok") =>
              /\ success = True
              /\ file.format = "csv"
              /\ Len(file.lines) = 1 + Len(data.data)

\* C9, amended: save_as_csv fails whenever the table has zero rows, whether
\* or not it has field names, and for a table with at least one row it
\* writes, unless an OS-level I/O error occurs, the header line of field
\* names followed by one line per row in row order.
C9_CsvZeroRows ==
    (Written /\ args.format = "csv" /\ HasBoth(data)) =>
        /\ Len(data.data) = 0 => success = False
        /\ (Len(data.data) >= 1 /\ io = "ok") =>
              /\ success = True
              /\ file.format = "csv"
              /\ Len(file.lines) = 1 + Len(data.data)
              /\ file.lines[1] = [j \in 1..Len(data.fields) |-> Str(data.fields[j])]
              /\ \A r \in 1..Len(data.data) :
                    /\ Len(file.lines[r + 1]) = Len(data.data[r])
                    /\ \A j \in 1..Len(data.data[r]) :
                          file.lines[r + 1][j] =
                              IF data.data[r][j] = None
                                  THEN Str("")
                                  ELSE data.data[r][j]

\* C9 witness: a table with no field names and two rows was written as an
\* empty header line and two empty lines, and save_as_csv reported success
C9_Witness ==
    /\ pc = "done"
    /\ args.format = "csv"
    /\ data = [fields |-> <<>>, data |-> << <<>>, <<>> >>]
    /\ success = True
    /\ file = [format |-> "csv", lines |-> << <<>>, <<>>, <<>> >>]
    /\ exit_code = [k |-> "int", v |-> 0]

============================================================================
